---- MODULE Spec2Model ----
(***************************************************************************)
(* Document classification and segmentation of doc-api-rest.               *)
(*                                                                         *)
(* Python strings are sequences of one-character strings, so that          *)
(* clean_text and classify_text work on characters; "" is << >>.           *)
(* Python dicts are records; d.get(k, default) is Get(d, k, default).      *)
(* Page indices are 0-based as in the code; a Python list l is a sequence  *)
(* and l[i] is l[i + 1] here.                                              *)
(***************************************************************************)
EXTENDS Integers, Sequences, FiniteSets, TLC

(***************************************************************************)
(* Bounds of the model.                                                    *)
(***************************************************************************)
\* the longest document a request of Spec carries
MaxPages == 3
\* the longest page-result list handed to the segmentation pass in SegSpec
MaxResults == 5
\* the longest string handed to clean_text and classify_text in FnSpec
MaxLen == 4
\* the most images on a page handed to is_scanned in FnSpec
MaxImages == 2

(***************************************************************************)
(* Program constants.                                                      *)
(***************************************************************************)
MAX_WORKERS == 12
MIN_NATIVE_CHARS == 10
MAX_COVERAGE == 80
MIN_WORDS == 5
MIN_CONFIDENCE == 50

None == "None"
Engine == "docTR"

Modes == {"HYBRID", "NATIVE", "OCR"}
Rotations == {0, 90, 180, 270}

(***************************************************************************)
(* Text: clean_text and classify_text.                                     *)
(***************************************************************************)
LowerLetters == <<"a", "b", "c", "f", "l", "t">>
UpperLetters == <<"A", "B", "C", "F", "L", "T">>
Digits == {"1"}
Whitespace == {" ", "\n"}
Punctuation == {":", "/", ".", "-"}

Range(s) == {s[i] : i \in DOMAIN s}

IsLetter(c) == c \in Range(LowerLetters) \cup Range(UpperLetters)

\* str.upper on one character
UpperChar(c) ==
    IF \E i \in DOMAIN LowerLetters : LowerLetters[i] = c
    THEN UpperLetters[CHOOSE i \in DOMAIN LowerLetters : LowerLetters[i] = c]
    ELSE c

\* str.upper
Upper(text) == [i \in DOMAIN text |-> UpperChar(text[i])]

\* the character class [A-Z0-9\s:/.-] under re.IGNORECASE
Kept(c) == IsLetter(c) \/ c \in Digits \/ c \in Whitespace \/ c \in Punctuation

\* re.sub(r'\s+', ' ', text): every run of whitespace becomes one space
RECURSIVE CollapseSpaces(_)
CollapseSpaces(text) ==
    IF text = << >> THEN << >>
    ELSE IF Head(text) \in Whitespace
         THEN IF Len(text) > 1 /\ text[2] \in Whitespace
              THEN CollapseSpaces(Tail(text))
              ELSE <<" ">> \o CollapseSpaces(Tail(text))
         ELSE <<Head(text)>> \o CollapseSpaces(Tail(text))

\* str.strip
RECURSIVE Strip(_)
Strip(text) ==
    IF text = << >> THEN << >>
    ELSE IF Head(text) \in Whitespace THEN Strip(Tail(text))
    ELSE IF text[Len(text)] \in Whitespace THEN Strip(SubSeq(text, 1, Len(text) - 1))
    ELSE text

\* clean_text that collapses and strips before it removes characters
clean_text_strip_first(text) ==
    Upper(SelectSeq(Strip(CollapseSpaces(text)), Kept))

clean_text(text) ==
    LET text_clean == SelectSeq(text, Kept)
    IN  Upper(Strip(CollapseSpaces(text_clean)))

\* pattern in text
Contains(text, pattern) ==
    \E i \in 0..(Len(text) - Len(pattern)) :
        SubSeq(text, i + 1, i + Len(pattern)) = pattern

\* config.patterns.PATRONES_INICIO, in insertion order, and PATRON_DEFAULT
PATRONES_INICIO == <<
    [classification |-> <<"F", "a", "c", "t">>,
     patterns |-> << <<"F", "a", "c", "t">>, <<"C", "F">> >>],
    [classification |-> <<"B", "l">>,
     patterns |-> << <<"b", "l", ":">>, <<"B", "/", "L">> >>] >>

PATRON_DEFAULT == <<"A", "L", "L">>

FACT == <<"F", "A", "C", "T">>
BL == <<"B", "L">>

\* the entries of the table whose pattern list has a pattern that, in upper
\* case, occurs in the text
MatchingIn(table, text) ==
    {k \in DOMAIN table :
        \E j \in DOMAIN table[k].patterns :
            Contains(text, Upper(table[k].patterns[j]))}

\* classify that returns the label of the last matching entry
classify_last(table, text) ==
    IF MatchingIn(table, text) = {} THEN << >>
    ELSE LET k == CHOOSE k \in MatchingIn(table, text) :
                      \A m \in MatchingIn(table, text) : k >= m
         IN  Upper(table[k].classification)

\* the loops of classify_text over a table: the first entry, in the order of
\* insertion, with a pattern in the text gives its label in upper case
classify(table, text) ==
    IF MatchingIn(table, text) = {} THEN << >>
    ELSE LET k == CHOOSE k \in MatchingIn(table, text) :
                      \A m \in MatchingIn(table, text) : k <= m
         IN  Upper(table[k].classification)

\* the labels whose pattern list has a pattern occurring in the text
Matching(text) == MatchingIn(PATRONES_INICIO, text)

classify_text(text) == classify(PATRONES_INICIO, text)

(***************************************************************************)
(* Pages.  A page is what PyMuPDF and the OCR engine report about it:      *)
(*   load_ok      load_page succeeds                                       *)
(*   text_ok      get_text("text") of the whole page succeeds              *)
(*   text_len     len(get_text("text").strip())                            *)
(*   width,height page.rect                                                *)
(*   images       get_images(): per image, whether get_image_bbox succeeds *)
(*                and the bounding box's corner, width and height          *)
(*   render_ok    get_pixmap succeeds                                      *)
(*   ocr          per extra rotation, the words and the summed confidence  *)
(*                (in percent) the engine recognizes on the rendering      *)
(*   rotation     page.rotation                                            *)
(*   native       the header band's native text                            *)
(*   scan         the words the engine recognizes in the header band       *)
(***************************************************************************)
NoOcr == [a \in Rotations |-> [words |-> 0, confidence |-> 0]]
GoodOcr == [a \in Rotations |->
              IF a = 0 THEN [words |-> 8, confidence |-> 720]
                       ELSE [words |-> 1, confidence |-> 30]]

BlankPage ==
    [load_ok |-> TRUE, text_ok |-> TRUE, text_len |-> 0, width |-> 10,
     height |-> 10, images |-> << >>, render_ok |-> TRUE, ocr |-> NoOcr, rotation |-> 0,
     native |-> << >>, scan |-> << >>]

InvoicePage ==
    [load_ok |-> TRUE, text_ok |-> TRUE, text_len |-> 15, width |-> 10,
     height |-> 10, images |-> << >>, render_ok |-> TRUE, ocr |-> GoodOcr, rotation |-> 0,
     native |-> <<"F", "a", "c", "t", "#", "\n", "1">>,
     scan |-> <<"f", "a", "c", "t", " ", "1">>]

TransportScan ==
    [load_ok |-> TRUE, text_ok |-> TRUE, text_len |-> 0, width |-> 10,
     height |-> 10, images |-> <<[bbox_ok |-> TRUE, x0 |-> 0, y0 |-> 0, width |-> 10, height |-> 9],
                                 [bbox_ok |-> FALSE, x0 |-> 0, y0 |-> 0, width |-> 0, height |-> 0]>>,
     render_ok |-> TRUE, ocr |-> GoodOcr, rotation |-> 0,
     native |-> <<" ">>, scan |-> <<"B", "/", "l", " ", "1">>]

\* a scan lying on its side: the engine reads it best after a turn of 90
RotatedScan ==
    [TransportScan EXCEPT
        !.ocr = [a \in Rotations |->
                   IF a = 90 THEN [words |-> 8, confidence |-> 720]
                             ELSE [words |-> 1, confidence |-> 30]]]

UnloadablePage == [BlankPage EXCEPT !.load_ok = FALSE]

FaultyPage == [InvoicePage EXCEPT !.text_ok = FALSE]

PageKinds == {BlankPage, InvoicePage, TransportScan, UnloadablePage, FaultyPage}

Get(d, key, default) == IF key \in DOMAIN d THEN d[key] ELSE default

\* max without the second argument
MaxNoFloor(a, b) == a

Max(a, b) == IF a >= b THEN a ELSE b

\* the sum of bbox.width * bbox.height over the images whose bounding box
\* can be read
RECURSIVE ImageArea(_)
ImageArea(image_list) ==
    IF image_list = << >> THEN 0
    ELSE LET img == Head(image_list)
         IN  (IF img.bbox_ok THEN img.width * img.height ELSE 0)
             + ImageArea(Tail(image_list))

\* coverage = (image_area / page_area) * 100 > 80, without the division
is_scanned(page) ==
    IF page.text_len < MIN_NATIVE_CHARS /\ page.images # << >>
    THEN LET page_area == page.width * page.height
         IN  page_area > 0 /\ ImageArea(page.images) * 100 > MAX_COVERAGE * page_area
    ELSE FALSE

\* the average confidence of one OCR pass is o.confidence / max(o.words, 1);
\* Better(o, b) is o.average > b.average
Better(o, b) ==
    o.confidence * Max(b.words, 1) > b.confidence * Max(o.words, 1)

RECURSIVE BestRotation(_, _, _, _)
BestRotation(page, angles, best_rotation, best) ==
    IF angles = << >> THEN best_rotation
    ELSE LET angle == Head(angles)
             o == page.ocr[angle]
         IN  IF o.words > best.words \/ (o.words = best.words /\ Better(o, best))
             THEN BestRotation(page, Tail(angles), angle, o)
             ELSE BestRotation(page, Tail(angles), best_rotation, best)

\* the calls of the engine detect_orientation makes: none when the rendering
\* or the engine fails, one when the pass at 0 is accepted, else four
OcrPasses(page, engine) ==
    IF ~page.render_ok \/ engine = None THEN 0
    ELSE LET o == page.ocr[0]
         IN  IF o.words > MIN_WORDS /\ o.confidence > MIN_CONFIDENCE * o.words
             THEN 1
             ELSE 1 + Len(<<90, 180, 270>>)

\* detect_orientation without the early return of the pass at 0
detect_orientation_always_compares(page, engine) ==
    IF ~page.render_ok \/ engine = None THEN 0
    ELSE BestRotation(page, <<90, 180, 270>>, 0, page.ocr[0])

detect_orientation(page, engine) ==
    IF ~page.render_ok \/ engine = None THEN 0
    ELSE LET o == page.ocr[0]
         IN  IF o.words > MIN_WORDS /\ o.confidence > MIN_CONFIDENCE * o.words
             THEN 0
             ELSE BestRotation(page, <<90, 180, 270>>, 0, o)

\* the denominators of the divisions detect_orientation evaluates: words_0 in
\* the test of line 85 when words_0 > 5, then max(words, 1) for the average
\* confidence of each rotation
Denominators(page, engine) ==
    IF ~page.render_ok \/ engine = None THEN {}
    ELSE LET o == page.ocr[0]
         IN  (IF o.words > MIN_WORDS THEN {o.words} ELSE {})
             \cup (IF o.words > MIN_WORDS /\ o.confidence > MIN_CONFIDENCE * o.words
                   THEN {}
                   ELSE {Max(page.ocr[a].words, 1) : a \in Rotations})

correct_rotation(page, angle) ==
    IF angle # 0
    THEN [page EXCEPT !.rotation = (page.rotation + angle) % 360]
    ELSE page

\* what stands for an exception leaving a function
Raised == [raised |-> TRUE]

\* HeaderOcr without the except clause: a failed rendering or a missing
\* engine raises
HeaderOcrUncaught(page, engine) ==
    IF ~page.render_ok \/ engine = None THEN Raised
    ELSE [text |-> clean_text(page.scan), ocr_path |-> TRUE, ocr_calls |-> 1]

\* the OCR branch of extract_header_text: the header band is rendered and
\* the engine is called on it once; any exception gives ""
HeaderOcr(page, engine) ==
    IF ~page.render_ok THEN [text |-> << >>, ocr_path |-> TRUE, ocr_calls |-> 0]
    ELSE IF engine = None THEN [text |-> << >>, ocr_path |-> TRUE, ocr_calls |-> 0]
    ELSE [text |-> clean_text(page.scan), ocr_path |-> TRUE, ocr_calls |-> 1]

\* HeaderExtraction whose OCR branch is open to every mode
HeaderExtractionOcrInEveryMode(page, mode, engine) ==
    LET clean == clean_text(page.native)
    IN  IF mode \in {"NATIVE", "HYBRID"} /\ page.text_ok /\ clean # << >>
        THEN [text |-> clean, ocr_path |-> FALSE, ocr_calls |-> 0]
        ELSE HeaderOcr(page, engine)

\* HeaderExtraction that returns the native text without testing it
HeaderExtractionNativeUntested(page, mode, engine) ==
    LET clean == clean_text(page.native)
    IN  IF mode \in {"NATIVE", "HYBRID"} /\ page.text_ok
        THEN [text |-> clean, ocr_path |-> FALSE, ocr_calls |-> 0]
        ELSE IF mode \in {"OCR", "HYBRID"}
             THEN HeaderOcr(page, engine)
             ELSE [text |-> << >>, ocr_path |-> FALSE, ocr_calls |-> 0]

\* extract_header_text with what it did: the text returned, whether the OCR
\* branch was entered and how often the engine was called
HeaderExtraction(page, mode, engine) ==
    LET clean == clean_text(page.native)
    IN  IF mode \in {"NATIVE", "HYBRID"} /\ page.text_ok /\ clean # << >>
        THEN [text |-> clean, ocr_path |-> FALSE, ocr_calls |-> 0]
        ELSE IF mode \in {"OCR", "HYBRID"}
             THEN HeaderOcr(page, engine)
             ELSE [text |-> << >>, ocr_path |-> FALSE, ocr_calls |-> 0]

extract_header_text(page, mode, engine) ==
    HeaderExtraction(page, mode, engine).text

\* process_page whose load_page failure is not caught
process_page_load_uncaught(page, page_idx, mode, engine) ==
    IF ~page.load_ok \/ ~page.text_ok THEN Raised
    ELSE LET orientation == detect_orientation(page, engine)
             rotated == correct_rotation(page, orientation)
             header_text == extract_header_text(rotated, mode, engine)
         IN  [page_index |-> page_idx,
              classification |-> classify_text(header_text),
              is_scanned |-> is_scanned(page),
              orientation |-> orientation,
              has_native_text |-> rotated.text_len >= MIN_NATIVE_CHARS,
              orientation_correct |-> orientation = 0]

\* process_page on page page_idx: the result dict, or Raised when an
\* exception leaves the function
process_page(page, page_idx, mode, engine) ==
    IF ~page.load_ok
    THEN [page_index |-> page_idx, classification |-> << >>,
          is_scanned |-> FALSE, orientation |-> 0, has_native_text |-> FALSE,
          error |-> "Failed to load page"]
    ELSE IF ~page.text_ok THEN Raised
    ELSE LET orientation == detect_orientation(page, engine)
             rotated == correct_rotation(page, orientation)
             header_text == extract_header_text(rotated, mode, engine)
         IN  [page_index |-> page_idx,
              classification |-> classify_text(header_text),
              is_scanned |-> is_scanned(page),
              orientation |-> orientation,
              has_native_text |-> rotated.text_len >= MIN_NATIVE_CHARS,
              orientation_correct |-> orientation = 0]

\* one step of process_page on the page: the call made on it and what the
\* call is made for
Step(op, purpose) == [op |-> op, purpose |-> purpose]

\* the steps of extract_header_text on the page
HeaderSteps(page, mode, engine) ==
    (IF mode \in {"NATIVE", "HYBRID"}
     THEN <<Step("get_text", "classification")>> ELSE << >>)
    \o (IF HeaderExtraction(page, mode, engine).ocr_path
        THEN <<Step("get_pixmap", "classification")>> ELSE << >>)

\* the steps process_page takes on the page, in the order of the code, up to
\* its return or to the exception that leaves it
ProcessPageSteps(page, mode, engine) ==
    IF ~page.load_ok THEN <<Step("load_page", "load")>>
    ELSE IF ~page.text_ok
         THEN <<Step("load_page", "load"), Step("get_text", "is_scanned")>>
    ELSE LET orientation == detect_orientation(page, engine)
             rotated == correct_rotation(page, orientation)
         IN  <<Step("load_page", "load"), Step("get_text", "is_scanned"),
               Step("get_pixmap", "orientation")>>
             \o (IF orientation # 0
                 THEN <<Step("set_rotation", "orientation")>> ELSE << >>)
             \o HeaderSteps(rotated, mode, engine)
             \o <<Step("get_text", "has_native_text")>>

(***************************************************************************)
(* Documents: the pdf_bytes of a request.                                  *)
(*   open_ok     fitz.open succeeds (the bytes are a PDF)                  *)
(*   needs_pass  the PDF is password-protected: fitz.open succeeds and     *)
(*               page_count is readable, load_page raises for every page   *)
(***************************************************************************)
SeqsUpTo(S, n) == UNION {[1..k -> S] : k \in 0..n}

ReadableDocs ==
    {[open_ok |-> TRUE, needs_pass |-> FALSE, pages |-> p] :
        p \in SeqsUpTo(PageKinds, MaxPages)}

CorruptDoc == [open_ok |-> FALSE, needs_pass |-> FALSE, pages |-> << >>]

EncryptedDocs ==
    {[open_ok |-> TRUE, needs_pass |-> TRUE, pages |-> [k \in 1..n |-> InvoicePage]] :
        n \in 1..MaxPages}

Docs == ReadableDocs \cup {CorruptDoc} \cup EncryptedDocs

OnePageDocs ==
    {[open_ok |-> TRUE, needs_pass |-> FALSE, pages |-> <<p>>] : p \in PageKinds}

NoDoc == [open_ok |-> FALSE, needs_pass |-> FALSE, pages |-> << >>]

\* the widths of the executor: one worker, two, and the configured width
Widths == {1, 2, MAX_WORKERS}

Requests == {1, 2}

VARIABLES
    doc,            \* per request, doc_data["documento"] (decoded)
    mode,           \* per request, extraction_mode
    width,          \* max_workers of DocumentClassifier.executor
    pc,             \* per request, the coroutine's position
    phase,          \* per request, the caller of classify_document:
                    \* "segment" (segment_document) or "quality"
                    \* (_analyze_document_quality)
    loop,           \* the request whose coroutine runs on the event loop, or 0
    ocr_engine,     \* DocumentClassifier.ocr_engine
    ocr_built,      \* the number of engines ocr_predictor has constructed
    fitz_doc,       \* per request, the fitz document of the current
                    \* classify_document call: "unopened", "open", "closed"
    futures,        \* per request, the tasks list of classify_document
    queue,          \* the executor's work queue: <<request, page index>>
    finished,       \* per request, the page indices in the order in which
                    \* the futures of the running classify_document completed
    page_results,   \* per request, the list classify_document returned
    start_idx,      \* per request, segment_document's locals
    current_classification,
    i,
    segments,       \* per request, the list segment_document builds
    quality,        \* per request, the DocumentQuality of the document
    outcome,        \* per request, what _process_single_document gave back
    call,           \* the function applied on its own, with its arguments
    ret             \* what that function returned

vars == <<doc, mode, width, pc, phase, loop, ocr_engine, ocr_built, fitz_doc,
          futures, queue, finished, page_results, start_idx,
          current_classification, i, segments, quality, outcome, call, ret>>

NoCall == [fn |-> "none"]
NoRet == [done |-> FALSE]
Pending == [kind |-> "pending"]
NoResult == [page_index |-> -1, classification |-> << >>]
NoQuality == [is_scanned |-> FALSE, orientation_degrees |-> 0,
              orientation_correct |-> TRUE, has_native_text |-> FALSE]

\* doc.load_page(page_idx) of the open document
LoadedPage(d, k) ==
    IF d.needs_pass THEN [d.pages[k] EXCEPT !.load_ok = FALSE] ELSE d.pages[k]

(***************************************************************************)
(* The segmentation pass of segment_document.                              *)
(***************************************************************************)
\* the first index whose classification is non-empty, or -1
first_pattern_idx(results) ==
    IF \E k \in DOMAIN results : results[k].classification # << >>
    THEN (CHOOSE k \in DOMAIN results :
            /\ results[k].classification # << >>
            /\ \A m \in 1..(k - 1) : results[m].classification = << >>) - 1
    ELSE -1

\* InitialRun without the default classification
InitialRunNoDefault(results) ==
    LET first == first_pattern_idx(results)
    IN  IF first # -1
        THEN [start_idx |-> first,
              classification |-> results[first + 1].classification]
        ELSE [start_idx |-> 0, classification |-> << >>]

\* InitialRun that starts the run at page 0
InitialRunAtZero(results) ==
    LET first == first_pattern_idx(results)
    IN  IF first # -1
        THEN [start_idx |-> 0,
              classification |-> results[first + 1].classification]
        ELSE [start_idx |-> 0, classification |-> PATRON_DEFAULT]

\* where the running segment starts and what it is classified as
InitialRun(results) ==
    LET first == first_pattern_idx(results)
    IN  IF first # -1
        THEN [start_idx |-> first,
              classification |-> results[first + 1].classification]
        ELSE [start_idx |-> 0, classification |-> PATRON_DEFAULT]

\* NewSegmentAt without the test for an empty classification
NewSegmentAtAnyChange(found_classification, current) ==
    found_classification # current

\* NewSegmentAt without the comparison with the running classification
NewSegmentAtEveryClassified(found_classification, current) ==
    found_classification # << >>

\* page i opens a new segment
NewSegmentAt(found_classification, current) ==
    found_classification # << >> /\ found_classification # current

QualityMetrics(result) ==
    [is_scanned |-> Get(result, "is_scanned", FALSE),
     orientation_degrees |-> Get(result, "orientation", 0),
     orientation_correct |-> Get(result, "orientation_correct", TRUE),
     has_native_text |-> Get(result, "has_native_text", FALSE)]

\* Segment with end_page one too far
SegmentEndOff(results, start, end_excl, classification) ==
    [start_page |-> start,
     end_page |-> end_excl,
     classification |-> classification,
     page_count |-> end_excl - start,
     quality_metrics |-> QualityMetrics(results[start + 1])]

\* Segment with the quality of the document's first page
SegmentQualityOfFirstPage(results, start, end_excl, classification) ==
    [start_page |-> start,
     end_page |-> end_excl - 1,
     classification |-> classification,
     page_count |-> end_excl - start,
     quality_metrics |-> QualityMetrics(results[1])]

\* the dict appended for the segment [start, end_excl - 1]
Segment(results, start, end_excl, classification) ==
    [start_page |-> start,
     end_page |-> end_excl - 1,
     classification |-> classification,
     page_count |-> end_excl - start,
     quality_metrics |-> QualityMetrics(results[start + 1])]

(***************************************************************************)
(* asyncio.gather over the page futures.                                   *)
(***************************************************************************)
\* GatherReady that returns on the first completed child
GatherReadyFirst(children) ==
    \E k \in DOMAIN children : children[k].state = "done"

\* gather completes with a result once every child has one
GatherReady(children) ==
    \A k \in DOMAIN children : children[k].state = "done"

\* gather raises as soon as one child has raised
GatherFailed(children) ==
    \E k \in DOMAIN children : children[k].state = "failed"

\* GatherResults in the order of completion
GatherResultsAsCompleted(children, order) ==
    [k \in DOMAIN order |-> children[order[k]].result]

\* gather returning the results from the last awaitable to the first
GatherResultsReversed(children, order) ==
    [k \in DOMAIN children |-> children[Len(children) + 1 - k].result]

\* the results, in the order of the awaitables
GatherResults(children, order) ==
    [k \in DOMAIN children |-> children[k].result]

\* OcrMissing without the test: the engine is built on every call
OcrMissingAlways(engine) == TRUE

\* self.ocr_engine is None
OcrMissing(engine) == engine = None

\* the page index handed to the task of the k-th page (k from 1)
TaskPage(k) == k - 1

\* the work items the executor's threads are running
Running ==
    {t \in UNION {{<<r, k>> : k \in DOMAIN futures[r]} : r \in Requests} :
        futures[t[1]][t[2]].state = "running"}

(***************************************************************************)
(* Initial states.  Spec: one request with any document, or two requests   *)
(* that overlap on the event loop with one-page documents.  SegSpec: the   *)
(* state in which classify_document has returned to segment_document.      *)
(***************************************************************************)
InitCommon ==
    /\ phase = [r \in Requests |-> "segment"]
    /\ loop = 0
    /\ ocr_engine = None
    /\ ocr_built = 0
    /\ fitz_doc = [r \in Requests |-> "unopened"]
    /\ futures = [r \in Requests |-> << >>]
    /\ queue = << >>
    /\ finished = [r \in Requests |-> << >>]
    /\ page_results = [r \in Requests |-> << >>]
    /\ start_idx = [r \in Requests |-> 0]
    /\ current_classification = [r \in Requests |-> << >>]
    /\ i = [r \in Requests |-> 0]
    /\ segments = [r \in Requests |-> << >>]
    /\ quality = [r \in Requests |-> NoQuality]
    /\ outcome = [r \in Requests |-> Pending]
    /\ call = NoCall
    /\ ret = NoRet

InitOne ==
    /\ \E d \in Docs : doc = [r \in Requests |-> IF r = 1 THEN d ELSE NoDoc]
    /\ \E m \in Modes : mode = [r \in Requests |-> m]
    /\ width \in Widths
    /\ pc = [r \in Requests |-> IF r = 1 THEN "start" ELSE "absent"]
    /\ InitCommon

InitTwo ==
    /\ doc \in [Requests -> OnePageDocs]
    /\ mode = [r \in Requests |-> "HYBRID"]
    /\ width \in {1, MAX_WORKERS}
    /\ pc = [r \in Requests |-> "start"]
    /\ InitCommon

Init == InitOne \/ InitTwo

(***************************************************************************)
(* _process_single_document, on the event loop.                            *)
(***************************************************************************)
\* an exception leaves _process_single_document
Fail(r, error) ==
    /\ pc' = [pc EXCEPT ![r] = "done"]
    /\ outcome' = [outcome EXCEPT ![r] = [kind |-> "exception", error |-> error]]
    /\ loop' = 0

\* the event loop starts the request's coroutine; it runs up to its first
\* await that suspends
StartRequest(r) ==
    /\ pc[r] = "start"
    /\ loop = 0
    /\ loop' = r
    /\ pc' = [pc EXCEPT ![r] = "initialize_ocr"]
    /\ UNCHANGED <<call, ret, doc, mode, width, phase, ocr_engine, ocr_built, fitz_doc,
                   futures, queue, finished, page_results, start_idx,
                   current_classification, i, segments, quality, outcome>>

\* classify_document: self.initialize_ocr(); ocr_predictor may raise
InitializeOcr(r) ==
    /\ pc[r] = "initialize_ocr"
    /\ loop = r
    /\ IF OcrMissing(ocr_engine)
       THEN \E constructed \in BOOLEAN :
               IF constructed
               THEN /\ ocr_engine' = Engine
                    /\ ocr_built' = ocr_built + 1
                    /\ pc' = [pc EXCEPT ![r] = "open"]
                    /\ UNCHANGED <<loop, outcome>>
               ELSE /\ Fail(r, "ocr_predictor")
                    /\ UNCHANGED <<ocr_engine, ocr_built>>
       ELSE /\ pc' = [pc EXCEPT ![r] = "open"]
            /\ UNCHANGED <<ocr_engine, ocr_built, loop, outcome>>
    /\ UNCHANGED <<call, ret, doc, mode, width, phase, fitz_doc, futures, queue, finished,
                   page_results, start_idx, current_classification, i,
                   segments, quality>>

\* classify_document: doc = fitz.open(stream=pdf_bytes, filetype="pdf")
OpenDocument(r) ==
    /\ pc[r] = "open"
    /\ loop = r
    /\ IF doc[r].open_ok
       THEN /\ fitz_doc' = [fitz_doc EXCEPT ![r] = "open"]
            /\ pc' = [pc EXCEPT ![r] = "submit"]
            /\ UNCHANGED <<loop, outcome>>
       ELSE /\ Fail(r, "fitz.open")
            /\ UNCHANGED fitz_doc
    /\ UNCHANGED <<call, ret, doc, mode, width, phase, ocr_engine, ocr_built, futures,
                   queue, finished, page_results, start_idx,
                   current_classification, i, segments, quality>>

\* classify_document: one run_in_executor per page, then await gather, which
\* suspends the coroutine
SubmitTasks(r) ==
    /\ pc[r] = "submit"
    /\ loop = r
    /\ LET num_pages == Len(doc[r].pages)
       IN  /\ futures' = [futures EXCEPT ![r] =
                  [k \in 1..num_pages |-> [state |-> "queued", result |-> NoResult]]]
           /\ queue' = queue \o [k \in 1..num_pages |-> <<r, k>>]
    /\ finished' = [finished EXCEPT ![r] = << >>]
    /\ pc' = [pc EXCEPT ![r] = "gather"]
    /\ loop' = 0
    /\ UNCHANGED <<call, ret, doc, mode, width, phase, ocr_engine, ocr_built, fitz_doc,
                   page_results, start_idx, current_classification, i,
                   segments, quality, outcome>>

\* a free worker thread of the executor takes the oldest work item
TaskStart ==
    /\ queue # << >>
    /\ Cardinality(Running) < width
    /\ LET r == Head(queue)[1]
           k == Head(queue)[2]
       IN  futures' = [futures EXCEPT ![r][k].state = "running"]
    /\ queue' = Tail(queue)
    /\ UNCHANGED <<call, ret, doc, mode, width, pc, phase, loop, ocr_engine, ocr_built,
                   fitz_doc, finished, page_results, start_idx,
                   current_classification, i, segments, quality, outcome>>

\* a worker thread finishes process_page(doc, page_idx, mode): the future
\* gets the result, or the exception
TaskFinish(r, k) ==
    /\ k \in DOMAIN futures[r]
    /\ futures[r][k].state = "running"
    /\ LET page_idx == TaskPage(k)
           result == process_page(LoadedPage(doc[r], page_idx + 1), page_idx,
                                  mode[r], ocr_engine)
       IN  futures' = [futures EXCEPT ![r][k] =
               IF "raised" \in DOMAIN result
               THEN [state |-> "failed", result |-> NoResult]
               ELSE [state |-> "done", result |-> result]]
    /\ finished' = [finished EXCEPT ![r] =
                      IF pc[r] = "gather" THEN Append(@, k) ELSE @]
    /\ UNCHANGED <<call, ret, doc, mode, width, pc, phase, loop, ocr_engine, ocr_built,
                   fitz_doc, queue, page_results, start_idx,
                   current_classification, i, segments, quality, outcome>>

\* results = await asyncio.gather(*tasks): every future has a result
GatherReturn(r) ==
    /\ pc[r] = "gather"
    /\ loop = 0
    /\ GatherReady(futures[r])
    /\ ~GatherFailed(futures[r])
    /\ loop' = r
    /\ page_results' = [page_results EXCEPT ![r] =
                          GatherResults(futures[r], finished[r])]
    /\ pc' = [pc EXCEPT ![r] = "close"]
    /\ UNCHANGED <<call, ret, doc, mode, width, phase, ocr_engine, ocr_built, fitz_doc,
                   futures, queue, finished, start_idx, current_classification,
                   i, segments, quality, outcome>>

\* await asyncio.gather(*tasks) raises the first exception of a page task:
\* it leaves classify_document before doc.close(), then its callers
GatherRaise(r) ==
    /\ pc[r] = "gather"
    /\ loop = 0
    /\ GatherFailed(futures[r])
    /\ Fail(r, "process_page")
    /\ finished' = [finished EXCEPT ![r] = << >>]
    /\ UNCHANGED <<call, ret, doc, mode, width, phase, ocr_engine, ocr_built, fitz_doc,
                   futures, queue, page_results, start_idx,
                   current_classification, i, segments, quality>>

\* classify_document: doc.close(); return list(results)
CloseDocument(r) ==
    /\ pc[r] = "close"
    /\ loop = r
    /\ fitz_doc' = [fitz_doc EXCEPT ![r] = "closed"]
    /\ finished' = [finished EXCEPT ![r] = << >>]
    /\ pc' = [pc EXCEPT ![r] = IF phase[r] = "segment" THEN "segment" ELSE "quality"]
    /\ UNCHANGED <<call, ret, doc, mode, width, phase, loop, ocr_engine, ocr_built,
                   futures, queue, page_results, start_idx,
                   current_classification, i, segments, quality, outcome>>

\* segment_document, from the return of classify_document to the loop
SegmentStart(r) ==
    /\ pc[r] = "segment"
    /\ loop = r
    /\ segments' = [segments EXCEPT ![r] = << >>]
    /\ IF page_results[r] = << >>
       THEN /\ pc' = [pc EXCEPT ![r] = "segmented"]
            /\ UNCHANGED <<start_idx, current_classification, i>>
       ELSE LET run == InitialRun(page_results[r])
            IN  /\ start_idx' = [start_idx EXCEPT ![r] = run.start_idx]
                /\ current_classification' =
                       [current_classification EXCEPT ![r] = run.classification]
                /\ i' = [i EXCEPT ![r] = run.start_idx + 1]
                /\ pc' = [pc EXCEPT ![r] = "segment_loop"]
    /\ UNCHANGED <<call, ret, doc, mode, width, phase, loop, ocr_engine, ocr_built,
                   fitz_doc, futures, queue, finished, page_results, quality,
                   outcome>>

\* segment_document: one iteration of the loop over the pages
SegmentLoop(r) ==
    /\ pc[r] = "segment_loop"
    /\ loop = r
    /\ i[r] < Len(page_results[r])
    /\ LET found_classification == page_results[r][i[r] + 1].classification
       IN  IF NewSegmentAt(found_classification, current_classification[r])
           THEN /\ segments' = [segments EXCEPT ![r] =
                       Append(@, Segment(page_results[r], start_idx[r], i[r],
                                         current_classification[r]))]
                /\ start_idx' = [start_idx EXCEPT ![r] = i[r]]
                /\ current_classification' =
                       [current_classification EXCEPT ![r] = found_classification]
           ELSE UNCHANGED <<segments, start_idx, current_classification>>
    /\ i' = [i EXCEPT ![r] = @ + 1]
    /\ UNCHANGED <<call, ret, doc, mode, width, pc, phase, loop, ocr_engine, ocr_built,
                   fitz_doc, futures, queue, finished, page_results, quality,
                   outcome>>

\* segment_document: the last segment is appended and the list returned
SegmentLast(r) ==
    /\ pc[r] = "segment_loop"
    /\ loop = r
    /\ i[r] >= Len(page_results[r])
    /\ segments' = [segments EXCEPT ![r] =
           Append(@, Segment(page_results[r], start_idx[r], Len(page_results[r]),
                             current_classification[r]))]
    /\ pc' = [pc EXCEPT ![r] = "segmented"]
    /\ UNCHANGED <<call, ret, doc, mode, width, phase, loop, ocr_engine, ocr_built,
                   fitz_doc, futures, queue, finished, page_results, start_idx,
                   current_classification, i, quality, outcome>>

\* DocumentExtractor.get_model_for_classification
get_model_for_classification(classification) ==
    IF classification = FACT THEN "invoice_01"
    ELSE IF classification = BL THEN "transport_01"
    ELSE None

\* _process_single_document: no segments makes the error document; otherwise
\* the quality analysis classifies the document again
CheckSegments(r) ==
    /\ pc[r] = "segmented"
    /\ loop = r
    /\ IF segments[r] = << >>
       THEN /\ pc' = [pc EXCEPT ![r] = "done"]
            /\ outcome' = [outcome EXCEPT ![r] =
                   [kind |-> "error_document", document_type |-> "ERROR",
                    page_range |-> "N/A",
                    alert |-> "Document classification failed"]]
            /\ loop' = 0
            /\ UNCHANGED phase
       ELSE /\ pc' = [pc EXCEPT ![r] = "initialize_ocr"]
            /\ phase' = [phase EXCEPT ![r] = "quality"]
            /\ UNCHANGED <<outcome, loop>>
    /\ UNCHANGED <<call, ret, doc, mode, width, ocr_engine, ocr_built, fitz_doc, futures,
                   queue, finished, page_results, start_idx,
                   current_classification, i, segments, quality>>

\* _analyze_document_quality, from the return of classify_document
AnalyzeQuality(r) ==
    /\ pc[r] = "quality"
    /\ loop = r
    /\ quality' = [quality EXCEPT ![r] =
           IF page_results[r] = << >> THEN NoQuality
           ELSE QualityMetrics(page_results[r][1])]
    /\ pc' = [pc EXCEPT ![r] = "extract"]
    /\ UNCHANGED <<call, ret, doc, mode, width, phase, loop, ocr_engine, ocr_built,
                   fitz_doc, futures, queue, finished, page_results, start_idx,
                   current_classification, i, segments, outcome>>

\* _process_single_document: the extraction of pdf_bytes with the model of
\* the main segment's classification, and the returned document
ExtractData(r) ==
    /\ pc[r] = "extract"
    /\ loop = r
    /\ LET main_segment == segments[r][1]
           doc_type == main_segment.classification
           model_id == get_model_for_classification(doc_type)
       IN  outcome' = [outcome EXCEPT ![r] =
               [kind |-> "processed",
                document_type |-> doc_type,
                page_range |-> <<main_segment.start_page + 1,
                                 main_segment.end_page + 1>>,
                quality |-> quality[r],
                extraction |->
                    IF model_id # None
                    THEN <<[model_id |-> model_id, first_page |-> 0,
                            last_page |-> Len(doc[r].pages) - 1]>>
                    ELSE << >>]]
    /\ pc' = [pc EXCEPT ![r] = "done"]
    /\ loop' = 0
    /\ UNCHANGED <<call, ret, doc, mode, width, phase, ocr_engine, ocr_built, fitz_doc,
                   futures, queue, finished, page_results, start_idx,
                   current_classification, i, segments, quality>>

Next ==
    \/ \E r \in Requests : StartRequest(r)
    \/ \E r \in Requests : InitializeOcr(r)
    \/ \E r \in Requests : OpenDocument(r)
    \/ \E r \in Requests : SubmitTasks(r)
    \/ TaskStart
    \/ \E r \in Requests : \E k \in 1..MaxPages : TaskFinish(r, k)
    \/ \E r \in Requests : GatherReturn(r)
    \/ \E r \in Requests : GatherRaise(r)
    \/ \E r \in Requests : CloseDocument(r)
    \/ \E r \in Requests : SegmentStart(r)
    \/ \E r \in Requests : SegmentLoop(r)
    \/ \E r \in Requests : SegmentLast(r)
    \/ \E r \in Requests : CheckSegments(r)
    \/ \E r \in Requests : AnalyzeQuality(r)
    \/ \E r \in Requests : ExtractData(r)

Spec == Init /\ [][Next]_vars

(***************************************************************************)
(* SegSpec: the segmentation pass over every list of page results that     *)
(* classify_document can return for a document of up to MaxResults pages.  *)
(***************************************************************************)
ReturningPageKinds == {p \in PageKinds : p.text_ok} \cup {RotatedScan}

SegInit ==
    /\ \E pages \in SeqsUpTo(ReturningPageKinds, MaxResults) :
          /\ doc = [r \in Requests |->
                      IF r = 1
                      THEN [open_ok |-> TRUE, needs_pass |-> FALSE, pages |-> pages]
                      ELSE NoDoc]
          /\ page_results = [r \in Requests |->
                      IF r = 1
                      THEN [k \in DOMAIN pages |->
                              process_page(pages[k], k - 1, "HYBRID", Engine)]
                      ELSE << >>]
          /\ futures = [r \in Requests |->
                      IF r = 1
                      THEN [k \in DOMAIN pages |->
                              [state |-> "done",
                               result |-> process_page(pages[k], k - 1, "HYBRID", Engine)]]
                      ELSE << >>]
    /\ mode = [r \in Requests |-> "HYBRID"]
    /\ width = MAX_WORKERS
    /\ pc = [r \in Requests |-> IF r = 1 THEN "segment" ELSE "absent"]
    /\ phase = [r \in Requests |-> "segment"]
    /\ loop = 1
    /\ ocr_engine = Engine
    /\ ocr_built = 1
    /\ fitz_doc = [r \in Requests |-> IF r = 1 THEN "closed" ELSE "unopened"]
    /\ queue = << >>
    /\ finished = [r \in Requests |-> << >>]
    /\ start_idx = [r \in Requests |-> 0]
    /\ current_classification = [r \in Requests |-> << >>]
    /\ i = [r \in Requests |-> 0]
    /\ segments = [r \in Requests |-> << >>]
    /\ quality = [r \in Requests |-> NoQuality]
    /\ outcome = [r \in Requests |-> Pending]
    /\ call = NoCall
    /\ ret = NoRet

SegNext ==
    \/ \E r \in Requests : SegmentStart(r)
    \/ \E r \in Requests : SegmentLoop(r)
    \/ \E r \in Requests : SegmentLast(r)

SegSpec == SegInit /\ [][SegNext]_vars

(***************************************************************************)
(* FnSpec: the functions of the classifier applied on their own, each to   *)
(* every input of a bounded set.                                           *)
(***************************************************************************)
\* raw text: letters of both cases, a digit, whitespace, a character that
\* clean_text removes and one it keeps
RawAlphabet == {"a", "B", "1", " ", "\n", "#", ":"}
RawTexts == SeqsUpTo(RawAlphabet, MaxLen)

\* normalized header texts
HeaderTexts == {clean_text(t) : t \in SeqsUpTo({"a", "B", " "}, MaxLen)}

\* classification tables: up to two labels in either order of insertion,
\* each with a non-empty list of patterns
Labels == {<<"F", "a">>, <<"B", "L">>}
PatternLists ==
    {<< << >> >>, << <<"a">> >>, << <<"B">> >>, << <<"a">>, <<"B">> >>,
     << <<"B", "a">> >>, << <<"B">>, << >> >>}
Entries == [classification : Labels, patterns : PatternLists]
Tables ==
    {t \in SeqsUpTo(Entries, Cardinality(Labels)) :
        \A j, k \in DOMAIN t : j # k => t[j].classification # t[k].classification}

\* pages for extract_header_text: the native text of the header band, whether
\* get_text and get_pixmap succeed, and what the engine reads in the band
HeaderPages ==
    {[InvoicePage EXCEPT !.native = n, !.scan = sc, !.text_ok = t, !.render_ok = rd] :
        n \in {<< >>, <<"#", "\n">>, <<" ">>, InvoicePage.native},
        sc \in {<< >>, <<"#">>, TransportScan.scan},
        t \in BOOLEAN, rd \in BOOLEAN}

\* pages for is_scanned: a page of 5 x 2, or with an empty rectangle, with up
\* to MaxImages images inside it
Boxes ==
    {[bbox_ok |-> TRUE, x0 |-> x[1], y0 |-> y[1], width |-> x[2], height |-> y[2]] :
        x \in {<<0, 5>>, <<0, 3>>, <<2, 3>>}, y \in {<<0, 2>>, <<0, 1>>, <<1, 1>>}}
Images == Boxes \cup {[bbox_ok |-> FALSE, x0 |-> 0, y0 |-> 0, width |-> 0, height |-> 0]}
ScanPages ==
    {[BlankPage EXCEPT !.text_len = n, !.width = d[1], !.height = d[2], !.images = im] :
        n \in {0, MIN_NATIVE_CHARS - 1, MIN_NATIVE_CHARS, 15},
        d \in {<<5, 2>>, <<0, 0>>},
        im \in SeqsUpTo(Images, MaxImages)}

\* pages for detect_orientation: what the engine recognizes at each rotation
OcrOutcomes ==
    {[words |-> 0, confidence |-> 0], [words |-> 1, confidence |-> 30],
     [words |-> 6, confidence |-> 240], [words |-> 6, confidence |-> 360],
     [words |-> 8, confidence |-> 720]}
OrientPages ==
    {[BlankPage EXCEPT !.ocr = o, !.render_ok = rd] :
        o \in [Rotations -> OcrOutcomes], rd \in BOOLEAN}

Engines == {Engine, None}

\* pages for process_page: what load_page gives, or fails to give
AnalysedPages == PageKinds \cup {RotatedScan}

FnInit ==
    /\ \/ \E t \in RawTexts : call = [fn |-> "clean_text", text |-> t]
       \/ \E tb \in Tables : \E t \in HeaderTexts :
             call = [fn |-> "classify_text", table |-> tb, text |-> t]
       \/ \E p \in HeaderPages : \E m \in Modes : \E e \in Engines :
             call = [fn |-> "extract_header_text", page |-> p, mode |-> m,
                     engine |-> e]
       \/ \E p \in ScanPages : call = [fn |-> "is_scanned", page |-> p]
       \/ \E p \in OrientPages : \E e \in Engines :
             call = [fn |-> "detect_orientation", page |-> p, engine |-> e]
       \/ \E p \in AnalysedPages : \E k \in 0..(MaxPages - 1) :
          \E m \in Modes : \E e \in Engines :
             call = [fn |-> "process_page", page |-> p, page_idx |-> k,
                     mode |-> m, engine |-> e]
    /\ ret = NoRet
    /\ doc = [r \in Requests |-> NoDoc]
    /\ mode = [r \in Requests |-> "HYBRID"]
    /\ width = MAX_WORKERS
    /\ pc = [r \in Requests |-> "absent"]
    /\ phase = [r \in Requests |-> "segment"]
    /\ loop = 0
    /\ ocr_engine = Engine
    /\ ocr_built = 1
    /\ fitz_doc = [r \in Requests |-> "unopened"]
    /\ futures = [r \in Requests |-> << >>]
    /\ queue = << >>
    /\ finished = [r \in Requests |-> << >>]
    /\ page_results = [r \in Requests |-> << >>]
    /\ start_idx = [r \in Requests |-> 0]
    /\ current_classification = [r \in Requests |-> << >>]
    /\ i = [r \in Requests |-> 0]
    /\ segments = [r \in Requests |-> << >>]
    /\ quality = [r \in Requests |-> NoQuality]
    /\ outcome = [r \in Requests |-> Pending]

Return(value) ==
    /\ ~ret.done
    /\ ret' = [done |-> TRUE, value |-> value]
    /\ UNCHANGED <<call, doc, mode, width, pc, phase, loop, ocr_engine,
                   ocr_built, fitz_doc, futures, queue, finished, page_results,
                   start_idx, current_classification, i, segments, quality,
                   outcome>>

CallCleanText ==
    /\ call.fn = "clean_text"
    /\ Return(clean_text(call.text))

CallClassifyText ==
    /\ call.fn = "classify_text"
    /\ Return(classify(call.table, call.text))

CallExtractHeaderText ==
    /\ call.fn = "extract_header_text"
    /\ Return(HeaderExtraction(call.page, call.mode, call.engine))

CallIsScanned ==
    /\ call.fn = "is_scanned"
    /\ Return(is_scanned(call.page))

CallDetectOrientation ==
    /\ call.fn = "detect_orientation"
    /\ Return(detect_orientation(call.page, call.engine))

CallProcessPage ==
    /\ call.fn = "process_page"
    /\ Return([result |-> process_page(call.page, call.page_idx, call.mode,
                                        call.engine),
               steps |-> ProcessPageSteps(call.page, call.mode, call.engine)])

FnNext ==
    \/ CallProcessPage
    \/ CallCleanText
    \/ CallClassifyText
    \/ CallExtractHeaderText
    \/ CallIsScanned
    \/ CallDetectOrientation

FnSpec == FnInit /\ [][FnNext]_vars

(***************************************************************************)
(* The segmentation pass of the script's dividir_pdf_por_contenido, over   *)
(* resultados_paginas, the list of the pages' classifications.             *)
(***************************************************************************)
\* the first index whose classification is not the empty string, or -1
primer_patron_i(resultados_paginas) ==
    IF \E k \in DOMAIN resultados_paginas : resultados_paginas[k] # << >>
    THEN (CHOOSE k \in DOMAIN resultados_paginas :
            /\ resultados_paginas[k] # << >>
            /\ \A m \in 1..(k - 1) : resultados_paginas[m] = << >>) - 1
    ELSE -1

\* ClasificacionInicial that keeps inicio_doc_actual at 0
ClasificacionInicialDesdeCero(resultados_paginas) ==
    LET primero == primer_patron_i(resultados_paginas)
    IN  IF primero # -1
        THEN [inicio_doc_actual |-> 0,
              clasificacion_doc_actual |-> resultados_paginas[primero + 1]]
        ELSE [inicio_doc_actual |-> 0, clasificacion_doc_actual |-> PATRON_DEFAULT]

\* inicio_doc_actual and clasificacion_doc_actual before the loop
ClasificacionInicial(resultados_paginas) ==
    LET primero == primer_patron_i(resultados_paginas)
    IN  IF primero # -1
        THEN [inicio_doc_actual |-> primero,
              clasificacion_doc_actual |-> resultados_paginas[primero + 1]]
        ELSE [inicio_doc_actual |-> 0, clasificacion_doc_actual |-> PATRON_DEFAULT]

\* the loop from page i on and the last document: limites_documentos as a
\* sequence of <<inicio, fin, clasificacion>>
RECURSIVE SegmentarDesde(_, _, _, _, _)
SegmentarDesde(resultados_paginas, pagina, inicio_doc_actual, clasificacion_doc_actual, limites) ==
    LET num_paginas == Len(resultados_paginas)
    IN  IF pagina >= num_paginas
        THEN IF inicio_doc_actual < num_paginas
             THEN Append(limites, <<inicio_doc_actual, num_paginas - 1,
                                    clasificacion_doc_actual>>)
             ELSE limites
        ELSE LET clasificacion_encontrada == resultados_paginas[pagina + 1]
             IN  IF /\ clasificacion_encontrada # << >>
                    /\ clasificacion_encontrada # clasificacion_doc_actual
                 THEN SegmentarDesde(resultados_paginas, pagina + 1, pagina,
                                     clasificacion_encontrada,
                                     Append(limites, <<inicio_doc_actual, pagina - 1,
                                                       clasificacion_doc_actual>>))
                 ELSE SegmentarDesde(resultados_paginas, pagina + 1,
                                     inicio_doc_actual, clasificacion_doc_actual,
                                     limites)

limites_documentos(resultados_paginas) ==
    LET inicial == ClasificacionInicial(resultados_paginas)
    IN  SegmentarDesde(resultados_paginas, inicial.inicio_doc_actual + 1,
                       inicial.inicio_doc_actual,
                       inicial.clasificacion_doc_actual, << >>)

(***************************************************************************)
(* Properties of the segmentation pass (SegSpec).                          *)
(***************************************************************************)
\* segment_document has returned a list for request r
Segmented(r) == pc[r] = "segmented"

\* the classification of page k (from 0) of request r
ClassOf(r, k) == page_results[r][k + 1].classification

NumResults(r) == Len(page_results[r])

RECURSIVE SumPageCount(_)
SumPageCount(segs) ==
    IF segs = << >> THEN 0 ELSE Head(segs).page_count + SumPageCount(Tail(segs))

\* the ranges of segs partition [0, n - 1]
Partitions(segs, n) ==
    /\ segs # << >>
    /\ segs[1].start_page = 0
    /\ segs[Len(segs)].end_page = n - 1
    /\ \A j \in DOMAIN segs : segs[j].start_page <= segs[j].end_page
    /\ \A j \in 1..(Len(segs) - 1) : segs[j + 1].start_page = segs[j].end_page + 1
    /\ SumPageCount(segs) = n

\* C1: for a non-empty list of N page results, the segments' ranges partition
\* [0, N - 1] without gaps or overlaps and their page_count sums to N.
C1_SegmentsPartition ==
    \A r \in Requests :
        Segmented(r) /\ page_results[r] # << >>
            => Partitions(segments[r], NumResults(r))

\* C2: when the first classified page is at index k > 0, the first segment
\* starts at page 0 and carries the classification of page k.
C2_LeadingPagesAbsorbed ==
    \A r \in Requests :
        Segmented(r) /\ first_pattern_idx(page_results[r]) > 0
            => /\ segments[r][1].start_page = 0
               /\ segments[r][1].classification =
                      ClassOf(r, first_pattern_idx(page_results[r]))

AllEmpty(r) ==
    \A k \in 0..(NumResults(r) - 1) : ClassOf(r, k) = << >>

\* C3: when every one of the N >= 1 classifications is empty, the pass returns
\* exactly one segment: pages 0 to N - 1, page_count N, PATRON_DEFAULT.
C3_AllEmptyIsOneDefaultSegment ==
    \A r \in Requests :
        Segmented(r) /\ NumResults(r) >= 1 /\ AllEmpty(r)
            => /\ Len(segments[r]) = 1
               /\ segments[r][1].start_page = 0
               /\ segments[r][1].end_page = NumResults(r) - 1
               /\ segments[r][1].page_count = NumResults(r)
               /\ segments[r][1].classification = PATRON_DEFAULT

C3_Witness ==
    \E r \in Requests :
        /\ Segmented(r) /\ NumResults(r) >= 2 /\ AllEmpty(r)
        /\ Len(segments[r]) = 1

\* the start pages of the segments emitted so far and of the running one
Boundaries(r) ==
    {segments[r][j].start_page : j \in 2..Len(segments[r])}
        \cup (IF pc[r] = "segment_loop" /\ segments[r] # << >>
              THEN {start_idx[r]} ELSE {})

\* the classification running just before page k: that of the segment that
\* ends at k - 1
RunningBefore(r, k) ==
    IF \E j \in DOMAIN segments[r] : segments[r][j].end_page = k - 1
    THEN LET j == CHOOSE j \in DOMAIN segments[r] : segments[r][j].end_page = k - 1
         IN  segments[r][j].classification
    ELSE << >>

\* C4: a segment boundary is at page i only if page i's classification is
\* non-empty and differs from the running classification; a page with the
\* running classification or with no classification starts no segment.
C4_BoundaryOnlyOnChange ==
    \A r \in Requests :
        pc[r] \in {"segment_loop", "segmented"} =>
            \A k \in Boundaries(r) :
                /\ ClassOf(r, k) # << >>
                /\ \E j \in DOMAIN segments[r] : segments[r][j].end_page = k - 1
                /\ ClassOf(r, k) # RunningBefore(r, k)

Classes(r) == [k \in DOMAIN page_results[r] |-> page_results[r][k].classification]

C4_Witness ==
    \E r \in Requests :
        /\ Segmented(r)
        /\ Classes(r) = <<FACT, << >>, FACT, << >>, BL>>
        /\ Len(segments[r]) = 2

\* the classification of the segment running when the loop reaches page k:
\* that of the last classified page before k
RECURSIVE RunningAt(_, _)
RunningAt(r, k) ==
    IF k = 0 THEN PATRON_DEFAULT
    ELSE IF ClassOf(r, k - 1) # << >> THEN ClassOf(r, k - 1)
    ELSE RunningAt(r, k - 1)

\* C5: for every page k > 0 the loop reaches whose classification is
\* non-empty and differs from the running one, the output has a segment
\* ending at k - 1 and a segment starting at k with page k's classification.
C5_ChangeClosesAndOpens ==
    \A r \in Requests :
        Segmented(r) =>
            \A k \in 1..(NumResults(r) - 1) :
                /\ k > first_pattern_idx(page_results[r])
                /\ ClassOf(r, k) # << >>
                /\ ClassOf(r, k) # RunningAt(r, k)
                => /\ \E j \in DOMAIN segments[r] : segments[r][j].end_page = k - 1
                   /\ \E j \in DOMAIN segments[r] :
                         /\ segments[r][j].start_page = k
                         /\ segments[r][j].classification = ClassOf(r, k)

C5_Witness ==
    \E r \in Requests :
        /\ Segmented(r)
        /\ Classes(r) = <<FACT, BL, << >>, FACT>>
        /\ Len(segments[r]) = 3
        /\ segments[r][2].start_page = 1 /\ segments[r][2].end_page = 2

\* C19: every segment's quality_metrics are the values of the page result at
\* the segment's own start_page, for the first, middle and last segments.
C19_QualityOfStartPage ==
    \A r \in Requests :
        pc[r] \in {"segment_loop", "segmented"} =>
            \A j \in DOMAIN segments[r] :
                LET seg == segments[r][j]
                    res == page_results[r][seg.start_page + 1]
                IN  /\ seg.quality_metrics.is_scanned = res.is_scanned
                    /\ seg.quality_metrics.orientation_degrees = res.orientation
                    /\ seg.quality_metrics.has_native_text = res.has_native_text
                    /\ seg.quality_metrics.orientation_correct =
                           (IF "orientation_correct" \in DOMAIN res
                            THEN res.orientation_correct ELSE TRUE)

C19_Witness ==
    \E r \in Requests :
        /\ Segmented(r)
        /\ Len(segments[r]) = 3
        /\ segments[r][1].page_count = 2
        /\ segments[r][1].quality_metrics.has_native_text
        /\ segments[r][2].page_count = 2
        /\ segments[r][2].quality_metrics.orientation_degrees = 90
        /\ segments[r][2].quality_metrics.is_scanned
        /\ ~segments[r][3].quality_metrics.is_scanned
        /\ ~page_results[r][2].has_native_text
        /\ page_results[r][4].orientation = 0

\* step 1 of the pass has run and the loop has not started
AfterStepOne(r) ==
    /\ pc[r] = "segment_loop"
    /\ segments[r] = << >>
    /\ i[r] = start_idx[r] + 1

\* page k is the first page with a non-empty classification
FirstClassified(r, k) ==
    /\ ClassOf(r, k) # << >>
    /\ \A m \in 0..(k - 1) : ClassOf(r, m) = << >>

\* C20: when some page is classified, the running segment step 1 opens starts
\* at k, the first page with a non-empty classification, with that page's
\* classification.
C20_RunStartsAtFirstClassified ==
    \A r \in Requests :
        \A k \in 0..(NumResults(r) - 1) :
            FirstClassified(r, k) =>
                /\ AfterStepOne(r) =>
                      /\ start_idx[r] = k
                      /\ current_classification[r] = ClassOf(r, k)
                /\ Segmented(r) =>
                      /\ segments[r][1].start_page = k
                      /\ segments[r][1].classification = ClassOf(r, k)

C20_Witness ==
    \E r \in Requests :
        /\ AfterStepOne(r)
        /\ NumResults(r) > 3
        /\ FirstClassified(r, 2)
        /\ start_idx[r] = 2
        /\ current_classification[r] = BL

(***************************************************************************)
(* Properties of classify_document and its callers (Spec).                 *)
(***************************************************************************)
NumPages(r) == Len(doc[r].pages)

\* the positions after the await of gather has returned a list
AfterGather == {"close", "segment", "segment_loop", "segmented", "quality", "extract"}

\* the results of the pages analysed one after the other, in page order
SequentialResults(d, m) ==
    [k \in DOMAIN d.pages |-> process_page(LoadedPage(d, k), k - 1, m, Engine)]

\* request r has a list returned by classify_document
HasResults(r) ==
    \/ pc[r] \in AfterGather
    \/ phase[r] = "quality"
    \/ pc[r] = "done" /\ outcome[r].kind \in {"processed", "error_document"}

\* C6: for a fixed document and mode, the page results classify_document
\* returns, and the segments and the document made from them, are the same
\* for every pool width and every interleaving and completion order.
C6_ResultsIndependentOfScheduling ==
    /\ \A r \in Requests :
          HasResults(r) => page_results[r] = SequentialResults(doc[r], mode[r])
    /\ \A r1, r2 \in Requests :
          /\ doc[r1] = doc[r2] /\ mode[r1] = mode[r2]
          /\ pc[r1] = "done" /\ outcome[r1].kind # "exception"
          /\ pc[r2] = "done" /\ outcome[r2].kind # "exception"
          => segments[r1] = segments[r2] /\ outcome[r1] = outcome[r2]

C6_Witness ==
    \E r \in Requests :
        /\ pc[r] = "close"
        /\ width = 2
        /\ finished[r] = <<2, 3, 1>>
        /\ Classes(r) = <<FACT, << >>, BL>>

\* page k (from 1) of request r makes process_page raise
RaisingPage(r, k) ==
    /\ k \in DOMAIN doc[r].pages
    /\ ~doc[r].needs_pass
    /\ doc[r].pages[k].load_ok
    /\ ~doc[r].pages[k].text_ok

\* C7: when the analysis of a page raises, the page's result is an
\* empty-classification result at its own index and the caller still gets a
\* result list as long as the document.
C7_PageFailureAbsorbed ==
    \A r \in Requests :
        /\ \E k \in DOMAIN doc[r].pages : RaisingPage(r, k)
        /\ fitz_doc[r] # "unopened"
        /\ pc[r] \in AfterGather \cup {"done"}
        => /\ Len(page_results[r]) = NumPages(r)
           /\ \A k \in DOMAIN doc[r].pages :
                 RaisingPage(r, k) =>
                     /\ page_results[r][k].page_index = k - 1
                     /\ page_results[r][k].classification = << >>

\* every page task of the running classify_document call has completed
AllTasksDone(r) ==
    /\ Len(futures[r]) = NumPages(r)
    /\ \A k \in DOMAIN futures[r] : futures[r][k].state = "done"
    /\ \A k \in DOMAIN queue : queue[k][1] # r
    /\ Len(page_results[r]) = NumPages(r)

\* C8: the segmentation pass runs, and a segment is emitted, only when every
\* page task of the document has completed.
C8_SegmentationAfterJoin ==
    \A r \in Requests :
        \/ pc[r] \in {"segment", "segment_loop", "segmented"}
        \/ phase[r] = "segment" /\ segments[r] # << >>
        => AllTasksDone(r)

C8_Witness ==
    \E r \in Requests :
        /\ pc[r] = "segment_loop"
        /\ segments[r] # << >>
        /\ NumPages(r) = 3
        /\ width = 2

\* C9: over all classify_document calls on the classifier the OCR engine is
\* constructed once, before any page task is submitted, and no page task is
\* queued or runs without it.
C9_OcrBuiltOnceBeforeTasks ==
    /\ ocr_built <= 1
    /\ (ocr_built = 1) = (ocr_engine = Engine)
    /\ (queue # << >> \/ Running # {}) => ocr_engine = Engine
    /\ \A r \in Requests :
          pc[r] \in {"open", "submit", "gather"} \cup AfterGather => ocr_built = 1

C9_Witness ==
    \E r1, r2 \in Requests :
        /\ r1 # r2
        /\ phase[r1] = "quality" /\ pc[r1] = "gather"
        /\ phase[r2] = "segment" /\ pc[r2] = "gather"
        /\ Running # {}
        /\ ocr_built = 1

\* C10: a document that cannot be opened ends the request in an error; it is
\* neither reported with an empty segment list nor reported as classified.
C10_UnreadableIsError ==
    \A r \in Requests :
        pc[r] = "done" /\ (~doc[r].open_ok \/ doc[r].needs_pass)
            => outcome[r].kind \notin {"processed", "error_document"}

\* the hand-offs to the data-extraction collaborator of a processed request
Extractions(r) == outcome[r].extraction

\* C11: for every segment of a processed document, that segment's page range
\* is handed to the extraction collaborator with the model of the segment's
\* own classification: one hand-off per segment, none on the whole document.
C11_ExtractionPerSegment ==
    \A r \in Requests :
        pc[r] = "done" /\ outcome[r].kind = "processed"
            => /\ Len(Extractions(r)) = Len(segments[r])
               /\ \A j \in DOMAIN segments[r] :
                     /\ j \in DOMAIN Extractions(r)
                     /\ Extractions(r)[j].first_page = segments[r][j].start_page
                     /\ Extractions(r)[j].last_page = segments[r][j].end_page
                     /\ Extractions(r)[j].model_id =
                            get_model_for_classification(segments[r][j].classification)

(***************************************************************************)
(* Properties of the functions applied on their own (FnSpec).              *)
(***************************************************************************)
\* the function fn has been applied and has returned
Returned(fn) == call.fn = fn /\ ret.done

\* the normalized native text of the header band; "" when get_text raises
NativeNormalized(page) ==
    IF page.text_ok THEN clean_text(page.native) ELSE << >>

\* what the OCR of the header band gives; "" when rendering or the engine fails
OcrNormalized(page, engine) ==
    IF page.render_ok /\ engine # None THEN clean_text(page.scan) ELSE << >>

\* C12: in NATIVE mode header extraction makes no OCR call, whatever the
\* native extraction yields, and returns the normalized native text or "".
C12_NativeNeverOcr ==
    Returned("extract_header_text") /\ call.mode = "NATIVE"
        => /\ ret.value.ocr_calls = 0
           /\ ~ret.value.ocr_path
           /\ ret.value.text = NativeNormalized(call.page)

C12_Witness ==
    /\ Returned("extract_header_text") /\ call.mode = "NATIVE"
    /\ call.engine = Engine /\ call.page.render_ok
    /\ NativeNormalized(call.page) = << >>
    /\ OcrNormalized(call.page, call.engine) # << >>
    /\ ret.value.text = << >>

\* C13: in HYBRID mode header extraction returns the normalized native text
\* when it is non-empty, without an OCR call; it takes the OCR branch and
\* returns its result exactly when the normalized native text is empty or
\* the native extraction failed.
C13_HybridOcrOnlyOnEmptyNative ==
    Returned("extract_header_text") /\ call.mode = "HYBRID"
        => LET native == NativeNormalized(call.page)
           IN  /\ native # << >> =>
                     /\ ret.value.text = native
                     /\ ret.value.ocr_calls = 0
                     /\ ~ret.value.ocr_path
               /\ native = << >> =>
                     /\ ret.value.ocr_path
                     /\ ret.value.text = OcrNormalized(call.page, call.engine)
                     /\ (call.page.render_ok /\ call.engine # None
                            => ret.value.ocr_calls = 1)
               /\ ret.value.ocr_path = (native = << >>)

C13_Witness ==
    /\ Returned("extract_header_text") /\ call.mode = "HYBRID"
    /\ ~call.page.text_ok /\ call.page.native # << >>
    /\ ret.value.ocr_calls = 1
    /\ ret.value.text = clean_text(TransportScan.scan)

\* a pattern of the entry occurs, in upper case, in the text
EntryMatches(entry, text) ==
    \E j \in DOMAIN entry.patterns : Contains(text, Upper(entry.patterns[j]))

\* C14: classify_text returns the label (in upper case) of the first entry,
\* in insertion order, that has a pattern occurring in the text, and "" when
\* no pattern of any label occurs; of two matching labels the earlier wins.
C14_FirstLabelWins ==
    Returned("classify_text")
        => LET table == call.table
               text == call.text
           IN  IF \E k \in DOMAIN table : EntryMatches(table[k], text)
               THEN \E k \in DOMAIN table :
                       /\ EntryMatches(table[k], text)
                       /\ \A m \in 1..(k - 1) : ~EntryMatches(table[m], text)
                       /\ ret.value = Upper(table[k].classification)
               ELSE ret.value = << >>

C14_Witness ==
    /\ Returned("classify_text")
    /\ call.table = <<[classification |-> <<"B", "L">>, patterns |-> << <<"B">> >>],
                      [classification |-> <<"F", "a">>, patterns |-> << <<"a">> >>]>>
    /\ call.text = <<"A", " ", "B">>
    /\ ret.value = <<"B", "L">>

\* C15: for every classification table, an empty normalized header text is
\* classified as "".
C15_EmptyTextUnclassified ==
    Returned("classify_text") /\ call.text = << >> => ret.value = << >>

\* C16: clean_text(clean_text(x)) = clean_text(x) for every string x.
C16_CleanTextIdempotent ==
    Returned("clean_text") => clean_text(ret.value) = ret.value

C16_Witness ==
    /\ Returned("clean_text")
    /\ call.text = <<"#", " ", "\n", "a">>
    /\ ret.value = <<"A">>

\* the area of the union of the readable bounding boxes, in unit cells
UnionArea(page) ==
    Cardinality(
        {c \in (0..(page.width - 1)) \X (0..(page.height - 1)) :
            \E k \in DOMAIN page.images :
                LET img == page.images[k]
                IN  /\ img.bbox_ok
                    /\ img.x0 <= c[1] /\ c[1] < img.x0 + img.width
                    /\ img.y0 <= c[2] /\ c[2] < img.y0 + img.height})

\* C17: is_scanned is true exactly when the native text has fewer than 10
\* characters and the union of the images' bounding boxes covers more than
\* 80% of the page; overlapping images are not counted twice.
C17_ScannedIffUnionCoverage ==
    Returned("is_scanned")
        => ret.value =
              (/\ call.page.text_len < MIN_NATIVE_CHARS
               /\ call.page.width * call.page.height > 0
               /\ UnionArea(call.page) * 100
                      > MAX_COVERAGE * call.page.width * call.page.height)

\* C18: with zero words recognized at each of the four rotations
\* detect_orientation returns 0, and no division it evaluates has a
\* denominator below 1.
C18_NoWordsGivesZero ==
    Returned("detect_orientation")
        => /\ \A d \in Denominators(call.page, call.engine) : d >= 1
           /\ (\A a \in Rotations : call.page.ocr[a].words = 0) => ret.value = 0

C18_Witness ==
    /\ Returned("detect_orientation")
    /\ call.page.render_ok /\ call.engine = Engine
    /\ \A a \in Rotations : call.page.ocr[a].words = 0
    /\ Denominators(call.page, call.engine) = {1}
    /\ ret.value = 0

\* the pass at 0 degrees is accepted: more than 5 words, average confidence
\* above 0.5
AcceptedAtZero(page) ==
    /\ page.ocr[0].words > MIN_WORDS
    /\ page.ocr[0].confidence > MIN_CONFIDENCE * page.ocr[0].words

\* C21: detect_orientation returns 0 after a single OCR pass when the pass at
\* 0 has more than 5 words and an average confidence above 0.5; otherwise the
\* rotation returned has the greatest word count of the four candidates and,
\* among those with that word count, the greatest average confidence.
C21_BestRotationReturned ==
    /\ Returned("detect_orientation")
    /\ call.page.render_ok /\ call.engine # None
    => LET ocr == call.page.ocr
       IN  IF AcceptedAtZero(call.page)
           THEN /\ ret.value = 0
                /\ OcrPasses(call.page, call.engine) = 1
           ELSE /\ ret.value \in Rotations
                /\ \A a \in Rotations :
                      /\ ocr[a].words <= ocr[ret.value].words
                      /\ ocr[a].words = ocr[ret.value].words
                            => ocr[a].confidence <= ocr[ret.value].confidence

C21_Witness ==
    /\ Returned("detect_orientation")
    /\ call.page.render_ok /\ call.engine # None
    /\ ~AcceptedAtZero(call.page)
    /\ call.page.ocr[0].words = 6
    /\ call.page.ocr[90].words = 6
    /\ call.page.ocr[180].words = 6
    /\ call.page.ocr[180].confidence > call.page.ocr[0].confidence
    /\ call.page.ocr[180].confidence > call.page.ocr[90].confidence
    /\ call.page.ocr[270].words = 1
    /\ ret.value = 180

\* C22: header extraction never raises, in any mode: an exception of the
\* native extraction counts as no native text (HYBRID goes on to OCR, NATIVE
\* returns ""), and an exception of the OCR extraction gives "".
C22_HeaderExtractionNeverRaises ==
    Returned("extract_header_text")
        => /\ "raised" \notin DOMAIN ret.value
           /\ ~call.page.text_ok /\ call.mode = "NATIVE" => ret.value.text = << >>
           /\ ~call.page.text_ok /\ call.mode = "HYBRID" =>
                 /\ ret.value.ocr_path
                 /\ ret.value.text = OcrNormalized(call.page, call.engine)
           /\ ret.value.ocr_path /\ (~call.page.render_ok \/ call.engine = None)
                 => ret.value.text = << >>

C22_Witness ==
    /\ Returned("extract_header_text")
    /\ call.mode = "HYBRID"
    /\ ~call.page.text_ok /\ ~call.page.render_ok
    /\ call.page.native # << >> /\ call.page.scan # << >>
    /\ ret.value.text = << >>

\* the positions in the steps of process_page at which the page's rotation
\* is set
Rotated(steps) == {n \in DOMAIN steps : steps[n].op = "set_rotation"}

\* the positions at which text of the page is read for the classification or
\* for a reported quality field
TextReads(steps) ==
    {n \in DOMAIN steps :
        /\ steps[n].op \in {"get_text", "get_pixmap"}
        /\ steps[n].purpose \in {"classification", "is_scanned", "has_native_text"}}

\* C23: during the analysis of one page the rotation is mutated once, by the
\* orientation correction (not at all when the page is upright), and before
\* any text of the page is read for classification or for the reported
\* quality fields.
C23_RotationBeforeTextReads ==
    Returned("process_page") /\ "raised" \notin DOMAIN ret.value.result
        => LET steps == ret.value.steps
           IN  /\ Cardinality(Rotated(steps)) <= 1
               /\ ret.value.result.orientation # 0 => Cardinality(Rotated(steps)) = 1
               /\ \A n \in Rotated(steps) : \A m \in TextReads(steps) : n < m

\* C24: when load_page fails, process_page returns, without raising and
\* without a later step, the result of that index with empty classification,
\* is_scanned false, orientation 0, has_native_text false and an error marker.
C24_LoadFailureResult ==
    Returned("process_page") /\ ~call.page.load_ok
        => /\ "raised" \notin DOMAIN ret.value.result
           /\ ret.value.result.page_index = call.page_idx
           /\ ret.value.result.classification = << >>
           /\ ret.value.result.is_scanned = FALSE
           /\ ret.value.result.orientation = 0
           /\ ret.value.result.has_native_text = FALSE
           /\ "error" \in DOMAIN ret.value.result
           /\ Len(ret.value.steps) = 1
           /\ ret.value.steps[1].op = "load_page"

C24_Witness ==
    /\ Returned("process_page") /\ ~call.page.load_ok
    /\ call.page_idx = 2
    /\ ret.value.result.page_index = 2
    /\ ret.value.result.error = "Failed to load page"

\* C25: the list of page results handed to the segmentation has as many
\* elements as the document has pages, and its element i is the result of
\* page i, whatever the order in which the page tasks finished.
C25_ResultsInPageOrder ==
    \A r \in Requests :
        pc[r] \in AfterGather
            => /\ Len(page_results[r]) = NumPages(r)
               /\ \A k \in DOMAIN page_results[r] :
                     page_results[r][k].page_index = k - 1

C25_Witness ==
    \E r \in Requests :
        /\ pc[r] = "close"
        /\ finished[r] = <<1, 3, 2>>
        /\ NumPages(r) = 3
        /\ page_results[r][3].page_index = 2

\* C26: while one document is processed, the classification of each of its
\* pages is computed once: no page task is submitted or run for a page whose
\* result the request already holds.
C26_PageClassifiedOnce ==
    \A r \in Requests :
        \A k \in DOMAIN futures[r] :
            futures[r][k].state \in {"queued", "running"}
                => k \notin DOMAIN page_results[r]

\* C27: the segments are maximal runs: two consecutive segments have
\* different classifications, and every segment's classification is non-empty
\* and is the classification of the page at its start_page or PATRON_DEFAULT;
\* the pages of a segment carry its classification or none.
C27_MaximalRuns ==
    \A r \in Requests :
        Segmented(r) =>
            /\ \A j \in 1..(Len(segments[r]) - 1) :
                  segments[r][j].classification # segments[r][j + 1].classification
            /\ \A j \in DOMAIN segments[r] :
                  /\ segments[r][j].classification # << >>
                  /\ \/ segments[r][j].classification
                            = ClassOf(r, segments[r][j].start_page)
                     \/ segments[r][j].classification = PATRON_DEFAULT
                  /\ \A k \in segments[r][j].start_page..segments[r][j].end_page :
                        ClassOf(r, k) \in {<< >>, segments[r][j].classification}

C27_Witness ==
    \E r \in Requests :
        /\ Segmented(r)
        /\ Classes(r) = <<FACT, FACT, << >>, BL, FACT>>
        /\ Len(segments[r]) = 3
        /\ segments[r][1].end_page = 2

\* C28: the quality reported for a document is the quality of the first page
\* of the reported page_range, the start_page of the main segment, also when
\* the main segment starts after page 0.
C28_QualityOfReportedRange ==
    \A r \in Requests :
        pc[r] = "done" /\ outcome[r].kind = "processed"
            => outcome[r].quality
                   = QualityMetrics(page_results[r][outcome[r].page_range[1]])

\* the page tasks of request r that are queued or running on its document
TasksUsingDocument(r) ==
    {k \in DOMAIN futures[r] : futures[r][k].state \in {"queued", "running"}}

\* C29: every document opened by classify_document is closed by the time the
\* request has ended, on every path, the one where a page task raises
\* included, and it is not closed while a page task that uses it is queued or
\* running.
C29_DocumentClosed ==
    \A r \in Requests :
        /\ pc[r] = "done" => fitz_doc[r] # "open"
        /\ fitz_doc[r] = "closed" => TasksUsingDocument(r) = {}

\* the segments of request r as <<start_page, end_page, classification>>
SegmentLimits(r) ==
    [j \in DOMAIN segments[r] |->
        <<segments[r][j].start_page, segments[r][j].end_page,
          segments[r][j].classification>>]

\* C30: for every sequence of page classifications, the empty one and the
\* one with no classified page included, segment_document and the script's
\* dividir_pdf_por_contenido give the same (start, end, classification)
\* boundaries.
C30_ServiceAndScriptAgree ==
    \A r \in Requests :
        Segmented(r) => SegmentLimits(r) = limites_documentos(Classes(r))

C30_Witness ==
    \E r \in Requests :
        /\ Segmented(r)
        /\ Classes(r) = << << >>, FACT, << >>, BL >>
        /\ limites_documentos(Classes(r)) = << <<1, 2, FACT>>, <<3, 3, BL>> >>
        /\ Len(segments[r]) = 2

====
